---- MODULE Spec2Model ----
(***************************************************************************)
(* KPI engine of Analisis_FARMAGUIRRE: the normalized purchase and sales   *)
(* tables, the daily aggregate table kpi_mov_diario_normalized, the result *)
(* table producto_kpis, create_daily_aggregates_normalized_fixed and       *)
(* calculate_kpis_fixed with the KpiCalculator functions it drives.        *)
(*                                                                         *)
(* Quantities and costs are exact: Python floats are modelled as rationals *)
(* <<n, d>> (d > 0, lowest terms); float('inf') is Inf.  A standard        *)
(* deviation is carried as its square, and a value a + c * sqrt(b) as the  *)
(* record [lin |-> a, coef |-> c, sq |-> b], so that every comparison the  *)
(* code makes is decided exactly.  Dates are day numbers, product names (nombre_clean)*)
(* are positive numbers ordered like the strings, EmptyName is ''.         *)
(***************************************************************************)
EXTENDS Integers, Sequences, FiniteSets, TLC

\* ------------------------------------------------------------------ bounds
MaxDate == 2       \* dates are 1..MaxDate
MaxName == 2       \* product names are 1..MaxName
MaxCompras == 2    \* rows of compras_normalized
MaxVentas == 2     \* rows of ventas_normalized
MaxRows == 3       \* rows of both tables together
MaxAggs == 2       \* runs of create_daily_aggregates_normalized_fixed
MaxRuns == 2       \* invocations of calculate_kpis_fixed
MaxMov == 3        \* movements of a series given to a calculator function
MaxMovQty == 2     \* qty_in and qty_out of such a movement
MaxProducts == 3   \* products of a list given to classify_abc
MaxMetricMov == 2  \* movements of a series given to the financial and demand metrics
LongPeriod == 1000 \* the longest period_days given to them

EmptyName == 0
Dates == 1..MaxDate
Names == 1..MaxName
Windows == {w \in Dates \X Dates : w[1] <= w[2]}

\* -------------------------------------------------------- exact arithmetic
RECURSIVE Gcd(_, _)
Gcd(a, b) == IF b = 0 THEN a ELSE Gcd(b, a % b)

Abs(x) == IF x < 0 THEN -x ELSE x

\* the rational n/d in lowest terms with a positive denominator
R(n, d) ==
    LET g == Gcd(Abs(n), Abs(d))
        s == IF d < 0 THEN -1 ELSE 1
    IN <<s * (n \div g), s * (d \div g)>>

RInt(n) == <<n, 1>>
Inf == <<1, 0>>
IsInf(a) == a[2] = 0
RZero == <<0, 1>>

RAdd(a, b) == R(a[1] * b[2] + b[1] * a[2], a[2] * b[2])
RSub(a, b) == R(a[1] * b[2] - b[1] * a[2], a[2] * b[2])
RMul(a, b) == R(a[1] * b[1], a[2] * b[2])
RDiv(a, b) == R(a[1] * b[2], a[2] * b[1])
RNeg(a) == <<-a[1], a[2]>>
REq(a, b) == a[1] * b[2] = b[1] * a[2]
RLt(a, b) ==
    IF IsInf(a) THEN FALSE
    ELSE IF IsInf(b) THEN TRUE
    ELSE a[1] * b[2] < b[1] * a[2]
RLe(a, b) == ~RLt(b, a)
RMin(a, b) == IF RLt(b, a) THEN b ELSE a
RMax(a, b) == IF RLt(a, b) THEN b ELSE a

\* the value lin + coef * sqrt(sq), with coef > 0 and sq >= 0
Surd(lin, coef, sq) == [lin |-> lin, coef |-> coef, sq |-> sq]

\* x < s.lin + s.coef * sqrt(s.sq)
RLtSurd(x, s) ==
    LET diff == RDiv(RSub(x, s.lin), s.coef)
    IN IF RLt(diff, RZero) THEN TRUE
       ELSE RLt(RMul(diff, diff), s.sq)

\* ------------------------------------------------------------ sequences
RECURSIVE SumSeq(_)
SumSeq(s) == IF s = <<>> THEN 0 ELSE s[1] + SumSeq(Tail(s))

RECURSIVE RSumSeq(_)
RSumSeq(s) == IF s = <<>> THEN RZero ELSE RAdd(s[1], RSumSeq(Tail(s)))

Front(s) == SubSeq(s, 1, Len(s) - 1)
LastOf(s) == s[Len(s)]

RECURSIVE SelectSeqIdx(_, _)
\* the subsequence of s at the (ascending) index set keep
SelectSeqIdx(s, keep) ==
    IF s = <<>> THEN <<>>
    ELSE LET rest == SelectSeqIdx(Front(s), keep \ {Len(s)})
         IN IF Len(s) \in keep THEN Append(rest, LastOf(s)) ELSE rest

\* keys are tuples of rationals of equal length, compared like Python tuples
KeyLt(a, b) ==
    \E i \in 1..Len(a) :
        /\ RLt(a[i], b[i])
        /\ \A j \in 1..(i - 1) : REq(a[j], b[j])

\* pairs <<key, item>>; x goes after every element whose key is not greater
InsertPair(sorted, x) ==
    LET k == Cardinality({i \in 1..Len(sorted) : ~KeyLt(x[1], sorted[i][1])})
    IN SubSeq(sorted, 1, k) \o <<x>> \o SubSeq(sorted, k + 1, Len(sorted))

RECURSIVE SortPairs(_)
\* stable sort, as Python's sorted and SQL's ORDER BY over a fixed scan
SortPairs(s) ==
    IF s = <<>> THEN <<>> ELSE InsertPair(SortPairs(Front(s)), LastOf(s))

Items(pairs) == [i \in 1..Len(pairs) |-> pairs[i][2]]

\* sorted(s, key=K)
SortedBy(s, K(_)) == Items(SortPairs([i \in 1..Len(s) |-> <<K(s[i]), s[i]>>]))

RECURSIVE Distinct(_)
\* the distinct elements of s in first-seen order
Distinct(s) ==
    IF s = <<>> THEN <<>>
    ELSE LET rest == Distinct(Front(s))
         IN IF \E i \in 1..Len(rest) : rest[i] = LastOf(s)
            THEN rest ELSE Append(rest, LastOf(s))

Range(s) == {s[i] : i \in 1..Len(s)}

\* ------------------------------------------------- utils/dates_numbers.py
\* safe_divide on rationals; default may be Inf
safe_divide(numerator, denominator, default) ==
    IF REq(denominator, RZero) THEN default ELSE RDiv(numerator, denominator)

\* ------------------------------------------------ KpiCalculator (kpi_fixed)
DefaultServiceLevel == R(95, 100)
DefaultLeadTimeDays == 7
DefaultExcessThreshold == 45
DefaultShortageThreshold == 7
\* lead times a caller may pass: a non-positive one and the default
LeadTimes == {0, DefaultLeadTimeDays}
CapDays == 999

\* self.z_scores, in dictionary order
z_scores ==
    << <<R(90, 100), R(1282, 1000)>>, <<R(95, 100), R(1645, 1000)>>,
       <<R(99, 100), R(2326, 1000)>>, <<R(995, 1000), R(2576, 1000)>> >>

RAbs(a) == IF RLt(a, RZero) THEN RNeg(a) ELSE a

\* min(keys, key=|x - service_level|): the first key at the least distance
get_z_score(service_level) ==
    LET dist(i) == RAbs(RSub(z_scores[i][1], service_level))
        best == CHOOSE i \in 1..Len(z_scores) :
                    /\ \A j \in 1..Len(z_scores) : RLe(dist(i), dist(j))
                    /\ \A j \in 1..(i - 1) : RLt(dist(i), dist(j))
    IN z_scores[best][2]

\* a movement is [fecha, qty_in, qty_out, nombre_clean]
MovementKey(m) == <<RInt(m.fecha), RInt(m.nombre_clean)>>

RECURSIVE RunningStock_Clamped(_, _)
\* variant: the running level is clamped at every step
RunningStock_Clamped(sorted_movements, initial_stock) ==
    IF sorted_movements = <<>> THEN <<>>
    ELSE LET prev == RunningStock_Clamped(Front(sorted_movements), initial_stock)
             m == LastOf(sorted_movements)
             before == IF prev = <<>> THEN initial_stock ELSE LastOf(prev)
             level == before + m.qty_in - m.qty_out
         IN Append(prev, IF level < 0 THEN 0 ELSE level)

RECURSIVE RunningStock(_, _)
\* current_stock after each movement: the running sum itself is not clamped
RunningStock(sorted_movements, initial_stock) ==
    IF sorted_movements = <<>> THEN <<>>
    ELSE LET prev == RunningStock(Front(sorted_movements), initial_stock)
             m == LastOf(sorted_movements)
             before == IF prev = <<>> THEN initial_stock ELSE LastOf(prev)
         IN Append(prev, before + m.qty_in - m.qty_out)

\* variant: the recorded level is the running level itself
Max0_Raw(x) == x

Max0(x) == IF x < 0 THEN 0 ELSE x

calculate_stock_series(movements, initial_stock) ==
    LET sorted_movements == SortedBy(movements, MovementKey)
        current == RunningStock(sorted_movements, initial_stock)
    IN [i \in 1..Len(sorted_movements) |->
          [fecha |-> sorted_movements[i].fecha,
           stock_level |-> Max0(current[i])]]

\* a cost sample is [cantidad, precio_unit], precio_unit a rational
CostKey(c) == <<RInt(c.cantidad), c.precio_unit>>

calculate_basic_metrics(movements, costs) ==
    LET total_qty_in == SumSeq([i \in 1..Len(movements) |-> movements[i].qty_in])
        total_qty_out == SumSeq([i \in 1..Len(movements) |-> movements[i].qty_out])
        stock_final_raw == total_qty_in - total_qty_out
        stock_final_display == Max0(stock_final_raw)
        stock_series == calculate_stock_series(movements, 0)
        daily_stocks == [i \in 1..Len(stock_series) |-> stock_series[i].stock_level]
        avg_inventory ==
            IF movements # <<>> /\ stock_series # <<>>
            THEN R(SumSeq(daily_stocks), Len(daily_stocks))
            ELSE R(stock_final_display, 2)
        costs_sorted == SortedBy(costs, CostKey)
        total_cost_value ==
            RSumSeq([i \in 1..Len(costs_sorted) |->
                RMul(RInt(costs_sorted[i].cantidad), costs_sorted[i].precio_unit)])
        total_cost_qty ==
            SumSeq([i \in 1..Len(costs_sorted) |-> costs_sorted[i].cantidad])
        avg_cost == safe_divide(total_cost_value, RInt(total_cost_qty), RZero)
    IN [total_compras |-> total_qty_in,
        total_ventas |-> total_qty_out,
        stock_promedio |-> avg_inventory,
        costo_promedio |-> avg_cost,
        stock_final_calculado |-> stock_final_display,
        stock_final_raw |-> stock_final_raw]

\* variant: the inventory is valued at the average stock
calculate_financial_metrics_AvgStock(basic_metrics, period_days) ==
    LET avg_cost == basic_metrics.costo_promedio
        cogs == RMul(avg_cost, RInt(basic_metrics.total_ventas))
        valor_inventario_promedio == RMul(avg_cost, basic_metrics.stock_promedio)
        daily_cogs == safe_divide(cogs, RInt(period_days), RZero)
        dio == IF RLt(RZero, daily_cogs)
               THEN safe_divide(valor_inventario_promedio, daily_cogs, RZero)
               ELSE RInt(CapDays)
    IN [cogs |-> cogs,
        valor_inventario |-> valor_inventario_promedio,
        rotacion |-> safe_divide(cogs, valor_inventario_promedio, RZero),
        dio |-> dio]

\* variant: the rotation is computed on the value of the final stock
calculate_financial_metrics_FinalStock(basic_metrics, period_days) ==
    LET avg_cost == basic_metrics.costo_promedio
        cogs == RMul(avg_cost, RInt(basic_metrics.total_ventas))
        valor_inventario == RMul(avg_cost, RInt(basic_metrics.stock_final_calculado))
        valor_inventario_promedio == RMul(avg_cost, basic_metrics.stock_promedio)
        daily_cogs == safe_divide(cogs, RInt(period_days), RZero)
        dio == IF RLt(RZero, daily_cogs)
               THEN safe_divide(valor_inventario_promedio, daily_cogs, RZero)
               ELSE RInt(CapDays)
    IN [cogs |-> cogs,
        valor_inventario |-> valor_inventario,
        rotacion |-> safe_divide(cogs, valor_inventario, RZero),
        dio |-> dio]

\* variant: a product without cost of goods sold gets dio 0
calculate_financial_metrics_ZeroDio(basic_metrics, period_days) ==
    LET avg_cost == basic_metrics.costo_promedio
        cogs == RMul(avg_cost, RInt(basic_metrics.total_ventas))
        valor_inventario_promedio == RMul(avg_cost, basic_metrics.stock_promedio)
        daily_cogs == safe_divide(cogs, RInt(period_days), RZero)
    IN [cogs |-> cogs,
        valor_inventario |-> RMul(avg_cost, RInt(basic_metrics.stock_final_calculado)),
        rotacion |-> safe_divide(cogs, valor_inventario_promedio, RZero),
        dio |-> safe_divide(valor_inventario_promedio, daily_cogs, RZero)]

calculate_financial_metrics(basic_metrics, period_days) ==
    LET avg_cost == basic_metrics.costo_promedio
        total_qty_out == basic_metrics.total_ventas
        inventario_promedio == basic_metrics.stock_promedio
        stock_final == basic_metrics.stock_final_calculado
        cogs == RMul(avg_cost, RInt(total_qty_out))
        valor_inventario == RMul(avg_cost, RInt(stock_final))
        valor_inventario_promedio == RMul(avg_cost, inventario_promedio)
        rotacion == safe_divide(cogs, valor_inventario_promedio, RZero)
        daily_cogs == safe_divide(cogs, RInt(period_days), RZero)
        dio == IF RLt(RZero, daily_cogs)
               THEN safe_divide(valor_inventario_promedio, daily_cogs, RZero)
               ELSE Inf
    IN [cogs |-> cogs,
        valor_inventario |-> valor_inventario,
        rotacion |-> rotacion,
        dio |-> IF IsInf(dio) THEN RInt(CapDays) ELSE dio]

\* std_demand_daily is carried as its square var_demand_daily (ddof = 1) and
\* cv_demand as its square; avg_daily_demand >= 0 for quantities >= 0
calculate_demand_metrics(movements, period_days) ==
    LET daily_demands == [i \in 1..Len(movements) |-> movements[i].qty_out]
        n == Len(daily_demands)
        total_demand == SumSeq(daily_demands)
        avg_daily_demand == safe_divide(RInt(total_demand), RInt(period_days), RZero)
        sum_sq == SumSeq([i \in 1..n |-> daily_demands[i] * daily_demands[i]])
        var_demand_daily ==
            IF n > 1
            THEN R(n * sum_sq - total_demand * total_demand, n * (n - 1))
            ELSE RZero
        cv_demand_sq ==
            safe_divide(var_demand_daily, RMul(avg_daily_demand, avg_daily_demand), RZero)
        total_in == SumSeq([i \in 1..n |-> movements[i].qty_in])
        total_out == SumSeq([i \in 1..n |-> movements[i].qty_out])
        final_stock == Max0(total_in - total_out)
        coverage_days == safe_divide(RInt(final_stock), avg_daily_demand, Inf)
    IN [avg_daily_demand |-> avg_daily_demand,
        var_demand_daily |-> var_demand_daily,
        cv_demand_sq |-> cv_demand_sq,
        cobertura_dias |-> RMin(coverage_days, RInt(CapDays))]

\* safety_stock = z * sqrt(var * lead_time), rop = avg * lead_time + safety_stock
calculate_reorder_metrics(demand_metrics, service_level, lead_time_days) ==
    LET z_score == get_z_score(service_level)
        under_root == RMul(demand_metrics.var_demand_daily, RInt(lead_time_days))
    IN [stock_seguridad |-> Surd(RZero, z_score, under_root),
        rop |-> Surd(RMul(demand_metrics.avg_daily_demand, RInt(lead_time_days)),
                     z_score, under_root)]

\* variant: the excess flag is computed without looking at the shortage flag
calculate_flags_Independent(metrics, excess_threshold, shortage_threshold) ==
    LET coverage_days == metrics.cobertura_dias
        is_shortage == \/ RLtSurd(RInt(metrics.stock_final_calculado), metrics.rop)
                       \/ RLt(coverage_days, RInt(shortage_threshold))
        is_excess == RLt(RInt(excess_threshold), coverage_days)
    IN [exceso |-> IF is_excess THEN 1 ELSE 0,
        faltante |-> IF is_shortage THEN 1 ELSE 0]

\* variant: only the reorder point decides a shortage
calculate_flags_StockOnly(metrics, excess_threshold, shortage_threshold) ==
    LET is_shortage == RLtSurd(RInt(metrics.stock_final_calculado), metrics.rop)
        is_excess == (~is_shortage) /\ RLt(RInt(excess_threshold), metrics.cobertura_dias)
    IN [exceso |-> IF is_excess THEN 1 ELSE 0,
        faltante |-> IF is_shortage THEN 1 ELSE 0]

calculate_flags(metrics, excess_threshold, shortage_threshold) ==
    LET coverage_days == metrics.cobertura_dias
        stock_final == metrics.stock_final_calculado
        rop == metrics.rop
        is_shortage == \/ RLtSurd(RInt(stock_final), rop)
                       \/ RLt(coverage_days, RInt(shortage_threshold))
        is_excess == (~is_shortage) /\ RLt(RInt(excess_threshold), coverage_days)
    IN [exceso |-> IF is_excess THEN 1 ELSE 0,
        faltante |-> IF is_shortage THEN 1 ELSE 0]

\* product['sales_value'] = total_ventas * costo_promedio
SalesValue(product) == RMul(RInt(product.total_ventas), product.costo_promedio)

\* variant: the products are ranked by ascending sales value
AbcKey_Ascending(product) == <<SalesValue(product), RInt(product.nombre_clean)>>

AbcKey(product) == <<RNeg(SalesValue(product)), RInt(product.nombre_clean)>>

\* variant: the class boundaries are exclusive
AbcClassOf_Strict(cumulative_value, total_value) ==
    LET cumulative_percentage == safe_divide(cumulative_value, total_value, RZero)
    IN IF RLt(cumulative_percentage, R(80, 100)) THEN "A"
       ELSE IF RLt(cumulative_percentage, R(95, 100)) THEN "B"
       ELSE "C"

AbcClassOf(cumulative_value, total_value) ==
    LET cumulative_percentage == safe_divide(cumulative_value, total_value, RZero)
    IN IF RLe(cumulative_percentage, R(80, 100)) THEN "A"
       ELSE IF RLe(cumulative_percentage, R(95, 100)) THEN "B"
       ELSE "C"

\* variant: products without sales value are left out of the classification
classify_abc_SkipZero(products_data) ==
    LET Sold(p) == ~REq(SalesValue(p), RZero)
        sold == SelectSeqIdx(products_data,
                    {i \in 1..Len(products_data) : Sold(products_data[i])})
        sorted_products == SortedBy(sold, AbcKey)
        values == [i \in 1..Len(sorted_products) |-> SalesValue(sorted_products[i])]
        total_value == RSumSeq(values)
        cumulative(i) == RSumSeq(SubSeq(values, 1, i))
        last(k) == CHOOSE i \in 1..Len(sorted_products) :
                      /\ sorted_products[i].nombre_clean = k
                      /\ \A j \in (i + 1)..Len(sorted_products) :
                            sorted_products[j].nombre_clean # k
    IN [k \in {sold[i].nombre_clean : i \in 1..Len(sold)} |->
          AbcClassOf(cumulative(last(k)), total_value)]

\* the dictionary classify_abc returns, as a function on its keys; a key that
\* occurs twice keeps the class written last
classify_abc(products_data) ==
    IF products_data = <<>> THEN <<>> ELSE
    LET sorted_products == SortedBy(products_data, AbcKey)
        values == [i \in 1..Len(sorted_products) |-> SalesValue(sorted_products[i])]
        total_value == RSumSeq(values)
        cumulative(i) == RSumSeq(SubSeq(values, 1, i))
        last(k) == CHOOSE i \in 1..Len(sorted_products) :
                      /\ sorted_products[i].nombre_clean = k
                      /\ \A j \in (i + 1)..Len(sorted_products) :
                            sorted_products[j].nombre_clean # k
    IN [k \in {products_data[i].nombre_clean : i \in 1..Len(products_data)} |->
          AbcClassOf(cumulative(last(k)), total_value)]

XyzKey(product) == <<RInt(product.nombre_clean)>>

\* cv_thresholds = (0.5, 1.0), compared on the squares
XyzClassOf(cv_demand_sq) ==
    IF RLe(cv_demand_sq, R(1, 4)) THEN "X"
    ELSE IF RLe(cv_demand_sq, RInt(1)) THEN "Y"
    ELSE "Z"

classify_xyz(products_data) ==
    LET sorted_products == SortedBy(products_data, XyzKey)
        last(k) == CHOOSE i \in 1..Len(sorted_products) :
                      /\ sorted_products[i].nombre_clean = k
                      /\ \A j \in (i + 1)..Len(sorted_products) :
                            sorted_products[j].nombre_clean # k
    IN [k \in {products_data[i].nombre_clean : i \in 1..Len(products_data)} |->
          XyzClassOf(sorted_products[last(k)].cv_demand_sq)]

\* dict.get(key, default)
DictGet(dict, key, default) == IF key \in DOMAIN dict THEN dict[key] ELSE default

\* ------------------------------------------------------------------ state
VARIABLES
    compras,            \* compras_normalized, in storage order
    ventas,             \* ventas_normalized, in storage order
    mov,                \* kpi_mov_diario_normalized, in storage order
    kpis,               \* producto_kpis as the engine's connection sees it
    committed,          \* producto_kpis as of the last COMMIT
    pc,                 \* position of calculate_kpis_fixed
    win,                \* its (start_date, end_date)
    products,           \* its discovered product list
    idx,                \* index of the next product of the loop
    all_products_data,  \* its collected metrics
    outcome,            \* how the last invocation ended
    lead_time_days,     \* lead_time_days of its KpiCalculator
    pre_kpis,           \* history: producto_kpis when the invocation began
    fresh,              \* history: window aggregated since the inputs changed
    aggs,               \* history: number of aggregate runs so far
    runs,               \* history: number of KPI invocations so far
    cleared,            \* history: the tables were cleared after the load
    batch,              \* history: records of the last successful run per window
    recreated,          \* history of RunAggregates: the run recreated a deleted row
    call,               \* argument of a calculator function called on its own
    ret,                \* its result
    proc,               \* invocations of calculate_kpis_fixed running in threads
    seen                \* producto_kpis as a dashboard query has read it

dbvars == <<compras, ventas, mov, kpis, committed>>
runvars == <<pc, win, products, idx, all_products_data, outcome, lead_time_days>>
histvars == <<pre_kpis, fresh, aggs, runs, cleared, batch, recreated>>
fnvars == <<call, ret>>
concvars == <<proc, seen>>
vars == <<compras, ventas, mov, kpis, committed, pc, win, products, idx,
          all_products_data, outcome, lead_time_days, pre_kpis, fresh, aggs,
          runs, cleared, batch, recreated, call, ret, proc, seen>>

NoWindow == <<0, 0>>
NoCall == [fn |-> "none"]
Threads == 1..2
NoThread ==
    [pc |-> "idle", win |-> NoWindow, all_products_data |-> <<>>, outcome |-> "none"]
NotRead == [pc |-> "idle", rows |-> <<>>]

\* the purchase lines a load may insert: for every date and product a line
\* of 2 units at cost 1 with CABYS code 2 and a line of 1 unit at cost 2
\* without a code (cabys 0 is the empty string), a line of quantity 0 and a
\* line without a product name
CompraRows ==
    {[fecha |-> d, nombre_clean |-> n, qty_normalizada |-> 2, costo |-> 1, cabys |-> 2] :
        d \in Dates, n \in Names}
    \cup {[fecha |-> d, nombre_clean |-> n, qty_normalizada |-> 1, costo |-> 2, cabys |-> 0] :
        d \in Dates, n \in Names}
    \cup {[fecha |-> 1, nombre_clean |-> MaxName, qty_normalizada |-> 0, costo |-> 1,
           cabys |-> 0],
          [fecha |-> 1, nombre_clean |-> EmptyName, qty_normalizada |-> 1, costo |-> 1,
           cabys |-> 2]}

\* the sale lines a load may insert: for every date and product a line of 1
\* unit with CABYS code 1, a line of quantity 0 and a line without a product
\* name
VentaRows ==
    {[fecha |-> d, nombre_clean |-> n, qty_normalizada |-> 1, cabys |-> 1] :
        d \in Dates, n \in Names}
    \cup {[fecha |-> MaxDate, nombre_clean |-> MaxName, qty_normalizada |-> 0, cabys |-> 0],
          [fecha |-> MaxDate, nombre_clean |-> EmptyName, qty_normalizada |-> 1, cabys |-> 1]}

\* ------------------------------------------------------------ SQL helpers
\* fecha BETWEEN :start_date AND :end_date
Between(fecha, start_date, end_date) == start_date <= fecha /\ fecha <= end_date

\* nombre_clean IS NOT NULL AND nombre_clean != ''
HasName(row) == row.nombre_clean # EmptyName

\* the rows of a table that satisfy P, in storage order
Where(table, P(_)) == SelectSeqIdx(table, {i \in 1..Len(table) : P(table[i])})

FechaNombreKey(row) == <<RInt(row.fecha), RInt(row.nombre_clean)>>

\* variant: the sums keep the rows without a product name
GroupSum_KeepUnnamed(table, start_date, end_date) ==
    LET InRange(r) == Between(r.fecha, start_date, end_date)
        rows == SelectSeqIdx(table, {i \in 1..Len(table) : InRange(table[i])})
        groups == Distinct([i \in 1..Len(rows) |->
                      [fecha |-> rows[i].fecha, nombre_clean |-> rows[i].nombre_clean]])
        total(g) == SumSeq([i \in 1..Len(rows) |->
                      IF rows[i].fecha = g.fecha /\ rows[i].nombre_clean = g.nombre_clean
                      THEN rows[i].qty_normalizada ELSE 0])
    IN SortedBy([i \in 1..Len(groups) |->
                    [fecha |-> groups[i].fecha,
                     nombre_clean |-> groups[i].nombre_clean,
                     qty |-> total(groups[i])]], FechaNombreKey)

\* SELECT fecha, nombre_clean, SUM(qty_normalizada) ... GROUP BY fecha,
\* nombre_clean ORDER BY fecha, nombre_clean
GroupSum(table, start_date, end_date) ==
    LET InRange(r) == Between(r.fecha, start_date, end_date) /\ HasName(r)
        rows == Where(table, InRange)
        groups == Distinct([i \in 1..Len(rows) |->
                      [fecha |-> rows[i].fecha, nombre_clean |-> rows[i].nombre_clean]])
        total(g) == SumSeq([i \in 1..Len(rows) |->
                      IF rows[i].fecha = g.fecha /\ rows[i].nombre_clean = g.nombre_clean
                      THEN rows[i].qty_normalizada ELSE 0])
        result == [i \in 1..Len(groups) |->
                      [fecha |-> groups[i].fecha,
                       nombre_clean |-> groups[i].nombre_clean,
                       qty |-> total(groups[i])]]
    IN SortedBy(result, FechaNombreKey)

\* ------------------------- create_daily_aggregates_normalized_fixed (ETL)
\* variant: the DELETE matches the first date of the window only
ClearAggregates_ByStart(table, start_date, end_date) ==
    LET Keep(r) == r.fecha # start_date
    IN SelectSeqIdx(table, {i \in 1..Len(table) : Keep(table[i])})

\* DELETE FROM kpi_mov_diario_normalized WHERE fecha BETWEEN ...
ClearAggregates(table, start_date, end_date) ==
    LET Keep(r) == ~Between(r.fecha, start_date, end_date)
    IN Where(table, Keep)

\* daily_movements is a dict; it is kept as the sequence of its values in
\* insertion order
HasKey(daily_movements, row) ==
    \E i \in 1..Len(daily_movements) :
        /\ daily_movements[i].fecha = row.fecha
        /\ daily_movements[i].nombre_clean = row.nombre_clean

NewMovement(row) ==
    [fecha |-> row.fecha, cabys |-> 0, nombre_clean |-> row.nombre_clean,
     qty_in |-> 0, qty_out |-> 0]

RECURSIVE AddPurchases(_, _)
AddPurchases(daily_movements, rows) ==
    IF rows = <<>> THEN daily_movements
    ELSE LET row == rows[1]
             d == IF HasKey(daily_movements, row) THEN daily_movements
                  ELSE Append(daily_movements, NewMovement(row))
             upd == [i \in 1..Len(d) |->
                       IF d[i].fecha = row.fecha /\ d[i].nombre_clean = row.nombre_clean
                       THEN [d[i] EXCEPT !.qty_in = @ + row.qty] ELSE d[i]]
         IN AddPurchases(upd, Tail(rows))

RECURSIVE AddSales(_, _)
AddSales(daily_movements, rows) ==
    IF rows = <<>> THEN daily_movements
    ELSE LET row == rows[1]
             d == IF HasKey(daily_movements, row) THEN daily_movements
                  ELSE Append(daily_movements, NewMovement(row))
             upd == [i \in 1..Len(d) |->
                       IF d[i].fecha = row.fecha /\ d[i].nombre_clean = row.nombre_clean
                       THEN [d[i] EXCEPT !.qty_out = @ + row.qty] ELSE d[i]]
         IN AddSales(upd, Tail(rows))

\* the rows the function inserts, in insertion order
DailyMovements(compras_table, ventas_table, start_date, end_date) ==
    LET compras_agg == GroupSum(compras_table, start_date, end_date)
        ventas_agg == GroupSum(ventas_table, start_date, end_date)
        with_in == AddPurchases(<<>>, SortedBy(compras_agg, FechaNombreKey))
        daily_movements == AddSales(with_in, SortedBy(ventas_agg, FechaNombreKey))
    IN SortedBy(daily_movements, FechaNombreKey)

AggregatesAfter(mov_table, compras_table, ventas_table, start_date, end_date) ==
    ClearAggregates(mov_table, start_date, end_date)
        \o DailyMovements(compras_table, ventas_table, start_date, end_date)

\* ------------------------------------------------ calculate_kpis_fixed
\* DELETE FROM producto_kpis WHERE fecha_inicio = :start_date AND fecha_fin = :end_date
\* variant: the DELETE is missing
DeleteKpis_None(table, start_date, end_date) == table

\* variant: the DELETE matches the start date only
DeleteKpis_ByStart(table, start_date, end_date) ==
    LET Keep(r) == r.fecha_inicio # start_date
    IN Where(table, Keep)

DeleteKpis(table, start_date, end_date) ==
    LET Keep(r) == ~(r.fecha_inicio = start_date /\ r.fecha_fin = end_date)
    IN Where(table, Keep)

\* variant: the except branch does not roll back
Rollback_None(connection_table, committed_table) == connection_table

\* session.rollback(): the connection sees the last committed table again
Rollback(connection_table, committed_table) == committed_table

NombreKey(nombre_clean) == <<RInt(nombre_clean)>>

\* variant: discovery without the movement filter
DiscoverProducts_AnyRow(mov_table, start_date, end_date) ==
    LET Listed(r) == Between(r.fecha, start_date, end_date) /\ HasName(r)
        rows == Where(mov_table, Listed)
    IN SortedBy(Distinct([i \in 1..Len(rows) |-> rows[i].nombre_clean]), NombreKey)

\* variant: discovery without ORDER BY, in the order of the stored rows
DiscoverProducts_Unordered(mov_table, start_date, end_date) ==
    LET Moved(r) == /\ Between(r.fecha, start_date, end_date)
                    /\ (r.qty_in > 0 \/ r.qty_out > 0)
                    /\ HasName(r)
        rows == Where(mov_table, Moved)
    IN Distinct([i \in 1..Len(rows) |-> rows[i].nombre_clean])

\* variant: discovery keeps only products with sales
DiscoverProducts_SoldOnly(mov_table, start_date, end_date) ==
    LET Sold(r) == /\ Between(r.fecha, start_date, end_date)
                   /\ r.qty_out > 0
                   /\ HasName(r)
        rows == Where(mov_table, Sold)
    IN SortedBy(Distinct([i \in 1..Len(rows) |-> rows[i].nombre_clean]), NombreKey)

\* SELECT DISTINCT nombre_clean ... ORDER BY nombre_clean
DiscoverProducts(mov_table, start_date, end_date) ==
    LET Moved(r) == /\ Between(r.fecha, start_date, end_date)
                    /\ (r.qty_in > 0 \/ r.qty_out > 0)
                    /\ HasName(r)
        rows == Where(mov_table, Moved)
    IN SortedBy(Distinct([i \in 1..Len(rows) |-> rows[i].nombre_clean]), NombreKey)

CabysKey(row) == <<RInt(row.fecha), RInt(row.cabys)>>

\* SELECT cabys ... WHERE cabys IS NOT NULL AND cabys != '' ORDER BY fecha, cabys LIMIT 1
FirstCabys(mov_table, nombre_clean) ==
    LET Coded(r) == r.nombre_clean = nombre_clean /\ r.cabys # 0
        rows == SortedBy(Where(mov_table, Coded), CabysKey)
    IN IF rows = <<>> THEN 0 ELSE rows[1].cabys

MovementOrderKey(row) == <<RInt(row.fecha), RInt(row.qty_in), RInt(row.qty_out)>>

\* SELECT fecha, qty_in, qty_out ... ORDER BY fecha, qty_in, qty_out, then the
\* list comprehension sorted by (fecha, nombre_clean)
\* variant: the movements query without the date range
ProductMovements_AllDates(mov_table, nombre_clean, start_date, end_date) ==
    LET Mine(r) == r.nombre_clean = nombre_clean
        rows == SortedBy(Where(mov_table, Mine), MovementOrderKey)
        dicts == [i \in 1..Len(rows) |->
                    [fecha |-> rows[i].fecha, qty_in |-> rows[i].qty_in,
                     qty_out |-> rows[i].qty_out, nombre_clean |-> nombre_clean]]
    IN SortedBy(dicts, MovementKey)

ProductMovements(mov_table, nombre_clean, start_date, end_date) ==
    LET Mine(r) == r.nombre_clean = nombre_clean
                   /\ Between(r.fecha, start_date, end_date)
        rows == SortedBy(Where(mov_table, Mine), MovementOrderKey)
        dicts == [i \in 1..Len(rows) |->
                    [fecha |-> rows[i].fecha, qty_in |-> rows[i].qty_in,
                     qty_out |-> rows[i].qty_out, nombre_clean |-> nombre_clean]]
    IN SortedBy(dicts, MovementKey)

\* SELECT AVG(cn.costo) ... WHERE cn.costo > 0; NULL (here 0 by "or 0") when
\* no row matches
\* variant: the cost of the first stored purchase line instead of the average
AvgCost_FirstStored(compras_table, nombre_clean) ==
    LET Priced(r) == r.nombre_clean = nombre_clean /\ r.costo > 0
        rows == Where(compras_table, Priced)
    IN IF rows = <<>> THEN RZero ELSE RInt(rows[1].costo)

AvgCost(compras_table, nombre_clean) ==
    LET Priced(r) == r.nombre_clean = nombre_clean /\ r.costo > 0
        rows == Where(compras_table, Priced)
    IN IF rows = <<>> THEN RZero
       ELSE R(SumSeq([i \in 1..Len(rows) |-> rows[i].costo]), Len(rows))

PeriodDays(start_date, end_date) == end_date - start_date + 1

\* the body of the per-product loop: the dictionary all_metrics
ProductMetrics(mov_table, compras_table, nombre_clean, start_date, end_date, lead_time) ==
    LET movements_dict == ProductMovements(mov_table, nombre_clean, start_date, end_date)
        costs_dict == <<[cantidad |-> 1, precio_unit |-> AvgCost(compras_table, nombre_clean)]>>
        period_days == PeriodDays(start_date, end_date)
        basic == calculate_basic_metrics(movements_dict, costs_dict)
        financial == calculate_financial_metrics(basic, period_days)
        demand == calculate_demand_metrics(movements_dict, period_days)
        reorder == calculate_reorder_metrics(demand, DefaultServiceLevel, lead_time)
        flags == calculate_flags(
                    [cobertura_dias |-> demand.cobertura_dias,
                     stock_final_calculado |-> basic.stock_final_calculado,
                     rop |-> reorder.rop],
                    DefaultExcessThreshold, DefaultShortageThreshold)
    IN [cabys |-> FirstCabys(mov_table, nombre_clean),
        nombre_clean |-> nombre_clean,
        fecha_inicio |-> start_date,
        fecha_fin |-> end_date,
        total_compras |-> basic.total_compras,
        total_ventas |-> basic.total_ventas,
        stock_promedio |-> basic.stock_promedio,
        costo_promedio |-> basic.costo_promedio,
        stock_final_calculado |-> basic.stock_final_calculado,
        stock_final_raw |-> basic.stock_final_raw,
        cogs |-> financial.cogs,
        valor_inventario |-> financial.valor_inventario,
        rotacion |-> financial.rotacion,
        dio |-> financial.dio,
        avg_daily_demand |-> demand.avg_daily_demand,
        var_demand_daily |-> demand.var_demand_daily,
        cv_demand_sq |-> demand.cv_demand_sq,
        cobertura_dias |-> demand.cobertura_dias,
        stock_seguridad |-> reorder.stock_seguridad,
        rop |-> reorder.rop,
        exceso |-> flags.exceso,
        faltante |-> flags.faltante]

\* ProductoKpis(**clean_metrics): the valid_fields of one metrics dictionary
KpiRecord(metrics, abc_classification, xyz_classification) ==
    [cabys |-> metrics.cabys,
     nombre_clean |-> metrics.nombre_clean,
     total_compras |-> metrics.total_compras,
     total_ventas |-> metrics.total_ventas,
     stock_promedio |-> metrics.stock_promedio,
     stock_final |-> metrics.stock_final_calculado,
     costo_promedio |-> metrics.costo_promedio,
     rotacion |-> metrics.rotacion,
     dio |-> metrics.dio,
     rop |-> metrics.rop,
     stock_seguridad |-> metrics.stock_seguridad,
     cobertura_dias |-> metrics.cobertura_dias,
     exceso |-> metrics.exceso,
     faltante |-> metrics.faltante,
     clasificacion_abc |-> DictGet(abc_classification, metrics.nombre_clean, "C"),
     clasificacion_xyz |-> DictGet(xyz_classification, metrics.nombre_clean, "Z"),
     fecha_inicio |-> metrics.fecha_inicio,
     fecha_fin |-> metrics.fecha_fin]

\* classification and the records session.add receives, in order
KpiRecords(products_data) ==
    LET abc_classification == classify_abc(products_data)
        xyz_classification == classify_xyz(products_data)
    IN [i \in 1..Len(products_data) |->
          KpiRecord(products_data[i], abc_classification, xyz_classification)]

\* the records a successful invocation adds: discovery, the product loop,
\* classification and the records in the order of session.add
RunRecords(mov_table, compras_table, start_date, end_date, lead_time) ==
    LET found == DiscoverProducts(mov_table, start_date, end_date)
    IN KpiRecords([i \in 1..Len(found) |->
          ProductMetrics(mov_table, compras_table, found[i], start_date, end_date,
                         lead_time)])

\* ---------------------------------------------------------------- actions
Init ==
    /\ compras = <<>>
    /\ ventas = <<>>
    /\ mov = <<>>
    /\ kpis = <<>>
    /\ committed = <<>>
    /\ pc = "idle"
    /\ win = NoWindow
    /\ products = <<>>
    /\ idx = 1
    /\ all_products_data = <<>>
    /\ outcome = "none"
    /\ lead_time_days = DefaultLeadTimeDays
    /\ proc = [t \in Threads |-> NoThread]
    /\ seen = NotRead
    /\ pre_kpis = <<>>
    /\ fresh = NoWindow
    /\ aggs = 0
    /\ runs = 0
    /\ cleared = FALSE
    /\ recreated = FALSE
    /\ batch = [w \in Dates \X Dates |-> <<>>]
    /\ call = NoCall
    /\ ret = NoCall

\* ----------------------------------- calculator functions called directly
\* movement series of one product: any dates, any quantities >= 0
MovementLists ==
    UNION {[1..n -> [fecha : 1..MaxMov, qty_in : 0..MaxMovQty,
                     qty_out : 0..MaxMovQty, nombre_clean : {1}]] : n \in 0..MaxMov}

StockCalls == [fn : {"stock"}, movements : MovementLists]

CoverageValues == {RZero, RInt(5), RInt(7), RInt(45), RInt(46), RInt(CapDays)}
RopValues ==
    {Surd(RInt(lin), get_z_score(DefaultServiceLevel), RInt(sq)) :
        lin \in {0, 1, 5}, sq \in {0, 1}}

FlagCalls ==
    [fn : {"flags"}, cobertura_dias : CoverageValues, stock_final_calculado : {0, 1, 5, 6},
     rop : RopValues, excess_threshold : {3, DefaultExcessThreshold},
     shortage_threshold : {0, DefaultShortageThreshold}]

\* product lists with distinct keys in any order; sales values 0 .. 3200
AbcProducts ==
    [nombre_clean : 1..MaxProducts, total_ventas : {0, 1, 3, 4, 16},
     costo_promedio : {RInt(1), RInt(200)}]
AbcLists ==
    {l \in UNION {[1..n -> AbcProducts] : n \in 1..MaxProducts} :
        \A i, j \in 1..Len(l) : i # j => l[i].nombre_clean # l[j].nombre_clean}

AbcCalls == [fn : {"abc"}, products : AbcLists]

\* period lengths: one day, a short window and a window of several years
PeriodLengths == {1, MaxMetricMov, LongPeriod}

\* movement series of one product for the financial and demand metrics
MetricMovementLists ==
    UNION {[1..n -> [fecha : 1..MaxMetricMov, qty_in : 0..MaxMovQty,
                     qty_out : 0..MaxMovQty, nombre_clean : {1}]] :
              n \in 0..MaxMetricMov}

\* one product over three days: 100 units bought, then 30 and 40 sold, cost 10
ScenarioMovements ==
    <<[fecha |-> 1, qty_in |-> 100, qty_out |-> 0, nombre_clean |-> 1],
      [fecha |-> 2, qty_in |-> 0, qty_out |-> 30, nombre_clean |-> 1],
      [fecha |-> 3, qty_in |-> 0, qty_out |-> 40, nombre_clean |-> 1]>>

ScenarioCall ==
    [fn |-> "metrics", movements |-> ScenarioMovements,
     period_days |-> 3, avg_cost |-> RInt(10)]

MetricCalls ==
    [fn : {"metrics"}, movements : MetricMovementLists,
     period_days : PeriodLengths, avg_cost : {RZero, RInt(1), RInt(2)}]
    \cup {ScenarioCall}

InitPure ==
    /\ compras = <<>>
    /\ ventas = <<>>
    /\ mov = <<>>
    /\ kpis = <<>>
    /\ committed = <<>>
    /\ pc = "idle"
    /\ win = NoWindow
    /\ products = <<>>
    /\ idx = 1
    /\ all_products_data = <<>>
    /\ outcome = "none"
    /\ lead_time_days = DefaultLeadTimeDays
    /\ proc = [t \in Threads |-> NoThread]
    /\ seen = NotRead
    /\ pre_kpis = <<>>
    /\ fresh = NoWindow
    /\ aggs = 0
    /\ runs = 0
    /\ cleared = FALSE
    /\ recreated = FALSE
    /\ batch = [w \in Dates \X Dates |-> <<>>]
    /\ call \in StockCalls \cup FlagCalls \cup AbcCalls \cup MetricCalls
    /\ ret = NoCall

UnitCost == <<[cantidad |-> 1, precio_unit |-> RInt(1)]>>

CallStockSeries ==
    /\ call.fn = "stock" /\ ret = NoCall
    /\ ret' = [fn |-> "calculate_stock_series",
               out |-> calculate_stock_series(call.movements, 0)]
    /\ UNCHANGED <<dbvars, runvars, histvars, concvars, call>>

CallBasicMetrics ==
    /\ call.fn = "stock" /\ ret = NoCall
    /\ ret' = [fn |-> "calculate_basic_metrics",
               out |-> calculate_basic_metrics(call.movements, UnitCost)]
    /\ UNCHANGED <<dbvars, runvars, histvars, concvars, call>>

CallFlags ==
    /\ call.fn = "flags" /\ ret = NoCall
    /\ ret' = [fn |-> "calculate_flags",
               out |-> calculate_flags(
                          [cobertura_dias |-> call.cobertura_dias,
                           stock_final_calculado |-> call.stock_final_calculado,
                           rop |-> call.rop],
                          call.excess_threshold, call.shortage_threshold)]
    /\ UNCHANGED <<dbvars, runvars, histvars, concvars, call>>

CallClassifyAbc ==
    /\ call.fn = "abc" /\ ret = NoCall
    /\ ret' = [fn |-> "classify_abc", out |-> classify_abc(call.products)]
    /\ UNCHANGED <<dbvars, runvars, histvars, concvars, call>>

\* costs_dict: the product's average cost as one sample of quantity 1
CostsDict(avg_cost) == <<[cantidad |-> 1, precio_unit |-> avg_cost]>>

CallFinancialMetrics ==
    /\ call.fn = "metrics" /\ ret = NoCall
    /\ LET basic_metrics ==
               calculate_basic_metrics(call.movements, CostsDict(call.avg_cost))
       IN ret' = [fn |-> "calculate_financial_metrics",
                  basic_metrics |-> basic_metrics,
                  out |-> calculate_financial_metrics(basic_metrics, call.period_days)]
    /\ UNCHANGED <<dbvars, runvars, histvars, concvars, call>>

CallDemandMetrics ==
    /\ call.fn = "metrics" /\ ret = NoCall
    /\ ret' = [fn |-> "calculate_demand_metrics",
               out |-> calculate_demand_metrics(call.movements, call.period_days)]
    /\ UNCHANGED <<dbvars, runvars, histvars, concvars, call>>

NextPure ==
    \/ CallFinancialMetrics
    \/ CallDemandMetrics
    \/ CallStockSeries
    \/ CallBasicMetrics
    \/ CallFlags
    \/ CallClassifyAbc

SpecPure == InitPure /\ [][NextPure]_vars

\* the last invocation of calculate_kpis_fixed has returned to its caller:
\* its locals and what is remembered about it are dropped
Returned ==
    /\ win' = NoWindow
    /\ products' = <<>>
    /\ idx' = 1
    /\ all_products_data' = <<>>
    /\ outcome' = "none"
    /\ pre_kpis' = <<>>

\* normalize_and_load_compras, one detail row
InsertCompra ==
    /\ pc = "idle"
    /\ ~cleared /\ aggs = 0 /\ runs = 0 /\ ventas = <<>>
    /\ Len(compras) < MaxCompras
    /\ Len(compras) + Len(ventas) < MaxRows
    /\ \E row \in CompraRows : compras' = Append(compras, row)
    /\ fresh' = NoWindow
    /\ outcome' = "none"
    /\ UNCHANGED <<ventas, mov, kpis, committed, pc, win, products, idx,
                   all_products_data, pre_kpis, batch, fnvars, concvars, recreated, lead_time_days, aggs, runs, cleared>>

\* normalize_and_load_ventas, one detail row
InsertVenta ==
    /\ pc = "idle"
    /\ ~cleared /\ aggs = 0 /\ runs = 0
    /\ Len(ventas) < MaxVentas
    /\ Len(compras) + Len(ventas) < MaxRows
    /\ \E row \in VentaRows : ventas' = Append(ventas, row)
    /\ fresh' = NoWindow
    /\ outcome' = "none"
    /\ UNCHANGED <<compras, mov, kpis, committed, pc, win, products, idx,
                   all_products_data, pre_kpis, batch, fnvars, concvars, recreated, lead_time_days, aggs, runs, cleared>>

\* clear_normalized_tables
ClearTables ==
    /\ pc = "idle"
    /\ ~cleared
    /\ cleared' = TRUE
    /\ compras' = <<>>
    /\ ventas' = <<>>
    /\ mov' = <<>>
    /\ fresh' = NoWindow
    /\ Returned
    /\ UNCHANGED <<kpis, committed, pc, batch, fnvars, concvars, recreated, lead_time_days, aggs, runs>>

\* create_daily_aggregates_normalized_fixed(start_date, end_date)
CreateAggregates ==
    /\ pc = "idle"
    /\ aggs < MaxAggs
    /\ aggs' = aggs + 1
    /\ \E w \in Windows :
          /\ mov' = AggregatesAfter(mov, compras, ventas, w[1], w[2])
          /\ fresh' = w
    /\ Returned
    /\ UNCHANGED <<compras, ventas, kpis, committed, pc, batch, fnvars, concvars, recreated, lead_time_days,
                   runs, cleared>>

\* calculate_kpis_fixed(start_date, end_date, lead_time_days = lead_time) up
\* to the product loop: the calculator, DELETE, product discovery
KpiEnter(start_date, end_date, lead_time) ==
    /\ pc = "idle"
    /\ runs < MaxRuns
    /\ runs' = runs + 1
    /\ lead_time_days' = lead_time
    /\ win' = <<start_date, end_date>>
    /\ kpis' = DeleteKpis(kpis, start_date, end_date)
    /\ products' = DiscoverProducts(mov, start_date, end_date)
    /\ pc' = "compute"
    /\ idx' = 1
    /\ all_products_data' = <<>>
    /\ outcome' = "none"
    /\ pre_kpis' = kpis
    /\ UNCHANGED <<compras, ventas, mov, committed, fresh, batch, fnvars, concvars, recreated,
                   aggs, cleared>>

\* the call of the pipeline: a window of the loaded data, default parameters
KpiBegin == \E w \in Windows : KpiEnter(w[1], w[2], DefaultLeadTimeDays)

\* one iteration of the product loop
KpiProduct ==
    /\ pc = "compute"
    /\ idx <= Len(products)
    /\ LET nombre_clean == products[idx]
           movements == ProductMovements(mov, nombre_clean, win[1], win[2])
       IN all_products_data' =
            IF movements = <<>> THEN all_products_data
            ELSE Append(all_products_data,
                        ProductMetrics(mov, compras, nombre_clean, win[1], win[2],
                                       lead_time_days))
    /\ idx' = idx + 1
    /\ UNCHANGED <<compras, ventas, mov, kpis, committed, pc, win, products,
                   outcome, pre_kpis, fresh, batch, fnvars, concvars, recreated, lead_time_days, aggs, runs, cleared>>

\* a query or computation of one iteration raises
KpiRaise ==
    /\ pc = "compute"
    /\ idx <= Len(products)
    /\ pc' = "except"
    /\ UNCHANGED <<compras, ventas, mov, kpis, committed, win, products, idx,
                   all_products_data, outcome, pre_kpis, fresh, batch, fnvars, concvars, recreated, lead_time_days, aggs, runs, cleared>>

\* except Exception: session.rollback(); raise e
KpiRollback ==
    /\ pc = "except"
    /\ kpis' = Rollback(kpis, committed)
    /\ pc' = "idle"
    /\ outcome' = "raised"
    /\ UNCHANGED <<compras, ventas, mov, committed, win, products, idx,
                   all_products_data, pre_kpis, fresh, batch, fnvars, concvars, recreated, lead_time_days, aggs, runs, cleared>>

\* classification, session.add of every record, session.commit()
KpiSave ==
    /\ pc = "compute"
    /\ idx > Len(products)
    /\ LET records == KpiRecords(all_products_data)
       IN /\ kpis' = kpis \o records
          /\ committed' = kpis \o records
          /\ batch' = [batch EXCEPT ![win] = records]
    /\ pc' = "idle"
    /\ outcome' = "ok"
    /\ UNCHANGED <<compras, ventas, mov, win, products, idx,
                   all_products_data, pre_kpis, fresh, fnvars, concvars, recreated, lead_time_days, aggs, runs, cleared>>

\* a call with any pair of dates and any lead time
KpiCall ==
    \E start_date \in Dates, end_date \in Dates, lead_time \in LeadTimes :
        KpiEnter(start_date, end_date, lead_time)

Next ==
    \/ InsertCompra
    \/ InsertVenta
    \/ ClearTables
    \/ CreateAggregates
    \/ KpiBegin
    \/ KpiProduct
    \/ KpiRaise
    \/ KpiRollback
    \/ KpiSave

Spec == Init /\ [][Next]_vars

\* ------------------------------------------ calls on a loaded database
\* the tables after a load of at most one purchase line and one sale line
CompraLoads == {<<>>} \cup {<<row>> : row \in CompraRows}
VentaLoads == {<<>>} \cup {<<row>> : row \in VentaRows}

\* producto_kpis after the pipeline ran for at most one window
StoredBefore(mov_table, compras_table) ==
    {<<>>} \cup {RunRecords(mov_table, compras_table, w[1], w[2], DefaultLeadTimeDays) :
                    w \in Windows}

\* the state after load, aggregation over all dates and at most one KPI run
InitLoaded ==
    /\ compras \in CompraLoads
    /\ ventas \in VentaLoads
    /\ mov = AggregatesAfter(<<>>, compras, ventas, 1, MaxDate)
    /\ kpis \in StoredBefore(mov, compras)
    /\ committed = kpis
    /\ pc = "idle"
    /\ win = NoWindow
    /\ products = <<>>
    /\ idx = 1
    /\ all_products_data = <<>>
    /\ outcome = "none"
    /\ lead_time_days = DefaultLeadTimeDays
    /\ proc = [t \in Threads |-> NoThread]
    /\ seen = NotRead
    /\ pre_kpis = kpis
    /\ fresh = <<1, MaxDate>>
    /\ aggs = 1
    /\ runs = 0
    /\ cleared = FALSE
    /\ recreated = FALSE
    /\ batch = [w \in Dates \X Dates |->
                  LET InWindow(r) == r.fecha_inicio = w[1] /\ r.fecha_fin = w[2]
                  IN Where(kpis, InWindow)]
    /\ call = NoCall
    /\ ret = NoCall

NextConfig ==
    \/ KpiCall
    \/ KpiProduct
    \/ KpiRaise
    \/ KpiRollback
    \/ KpiSave

SpecConfig == InitLoaded /\ [][NextConfig]_vars

\* ------------------------- invocations in threads of one process
\* Every session is bound to the one engine, whose StaticPool hands the same
\* connection to all of them: a statement of any session acts on the one
\* connection, and a COMMIT or ROLLBACK of any session ends whatever is
\* pending on it.

\* thread t calls calculate_kpis_fixed for a window no other thread works on:
\* the DELETE runs on the connection
ThreadEnter(t) ==
    /\ proc[t].pc = "idle"
    /\ \E w \in Windows :
          /\ \A u \in Threads \ {t} : proc[u].win # w
          /\ kpis' = DeleteKpis(kpis, w[1], w[2])
          /\ proc' = [proc EXCEPT ![t].pc = "compute", ![t].win = w]
    /\ UNCHANGED <<compras, ventas, mov, committed, runvars, histvars, fnvars, seen>>

\* discovery and the whole product loop of thread t: queries only
ThreadCompute(t) ==
    /\ proc[t].pc = "compute"
    /\ LET w == proc[t].win
           found == DiscoverProducts(mov, w[1], w[2])
       IN proc' = [proc EXCEPT
              ![t].pc = "save",
              ![t].all_products_data =
                  [i \in 1..Len(found) |->
                      ProductMetrics(mov, compras, found[i], w[1], w[2],
                                     DefaultLeadTimeDays)]]
    /\ UNCHANGED <<dbvars, runvars, histvars, fnvars, seen>>

\* an iteration of the product loop of thread t raises
ThreadRaise(t) ==
    /\ proc[t].pc = "compute"
    /\ DiscoverProducts(mov, proc[t].win[1], proc[t].win[2]) # <<>>
    /\ proc' = [proc EXCEPT ![t].pc = "except"]
    /\ UNCHANGED <<dbvars, runvars, histvars, fnvars, seen>>

\* except Exception: session.rollback(); raise e
ThreadRollback(t) ==
    /\ proc[t].pc = "except"
    /\ kpis' = Rollback(kpis, committed)
    /\ proc' = [proc EXCEPT ![t].pc = "done", ![t].outcome = "raised"]
    /\ UNCHANGED <<compras, ventas, mov, committed, runvars, histvars, fnvars, seen>>

\* classification, session.add of every record, session.commit()
ThreadSave(t) ==
    /\ proc[t].pc = "save"
    /\ LET records == KpiRecords(proc[t].all_products_data)
       IN /\ kpis' = kpis \o records
          /\ committed' = kpis \o records
    /\ proc' = [proc EXCEPT ![t].pc = "done", ![t].outcome = "ok"]
    /\ UNCHANGED <<compras, ventas, mov, runvars, histvars, fnvars, seen>>

\* show_dashboard: the query on producto_kpis, in a session of its own
DashboardQuery ==
    /\ seen.pc = "idle"
    /\ seen' = [pc |-> "open", rows |-> kpis]
    /\ UNCHANGED <<dbvars, runvars, histvars, fnvars, proc>>

\* the end of the with block: the session is closed and the connection reset
DashboardClose ==
    /\ seen.pc = "open"
    /\ seen' = [seen EXCEPT !.pc = "closed"]
    /\ kpis' = Rollback(kpis, committed)
    /\ UNCHANGED <<compras, ventas, mov, committed, runvars, histvars, fnvars, proc>>

NextThreads ==
    \/ \E t \in Threads : ThreadEnter(t)
    \/ \E t \in Threads : ThreadCompute(t)
    \/ \E t \in Threads : ThreadRaise(t)
    \/ \E t \in Threads : ThreadRollback(t)
    \/ \E t \in Threads : ThreadSave(t)
    \/ DashboardQuery
    \/ DashboardClose

SpecThreads == InitLoaded /\ [][NextThreads]_vars


\* ---------------- loads and aggregate runs in any order (SpecAggregates)
\* a row of the window that the DELETE removes and the inserts bring back
Recreates(mov_table, compras_table, ventas_table, start_date, end_date) ==
    LET inserted == DailyMovements(compras_table, ventas_table, start_date, end_date)
    IN \E i \in 1..Len(mov_table) :
          /\ Between(mov_table[i].fecha, start_date, end_date)
          /\ HasKey(inserted, mov_table[i])

\* normalize_and_load_compras, one detail row, at any time
LoadCompra ==
    /\ pc = "idle"
    /\ Len(compras) < MaxCompras
    /\ Len(compras) + Len(ventas) < MaxRows
    /\ \E row \in CompraRows : compras' = Append(compras, row)
    /\ fresh' = NoWindow
    /\ UNCHANGED <<ventas, mov, kpis, committed, runvars, pre_kpis, aggs, runs, cleared,
                   batch, recreated, fnvars, concvars>>

\* normalize_and_load_ventas, one detail row, at any time
LoadVenta ==
    /\ pc = "idle"
    /\ Len(ventas) < MaxVentas
    /\ Len(compras) + Len(ventas) < MaxRows
    /\ \E row \in VentaRows : ventas' = Append(ventas, row)
    /\ fresh' = NoWindow
    /\ UNCHANGED <<compras, mov, kpis, committed, runvars, pre_kpis, aggs, runs, cleared,
                   batch, recreated, fnvars, concvars>>

\* create_daily_aggregates_normalized_fixed(start_date, end_date), any number
\* of times; aggs counts the runs up to MaxAggs
RunAggregates ==
    /\ pc = "idle"
    /\ \E w \in Windows :
          /\ mov' = AggregatesAfter(mov, compras, ventas, w[1], w[2])
          /\ fresh' = w
          /\ recreated' = Recreates(mov, compras, ventas, w[1], w[2])
    /\ aggs' = IF aggs < MaxAggs THEN aggs + 1 ELSE aggs
    /\ UNCHANGED <<compras, ventas, kpis, committed, runvars, pre_kpis, runs, cleared,
                   batch, fnvars, concvars>>

NextAggregates ==
    \/ LoadCompra
    \/ LoadVenta
    \/ ClearTables
    \/ RunAggregates

SpecAggregates == Init /\ [][NextAggregates]_vars

\* ================================================================ claims
\* ---- claims about calculator functions, checked under SpecPure ----

\* C11: the dio of calculate_financial_metrics and the cobertura_dias of
\* calculate_demand_metrics are <= 999 for every period length >= 1, also
\* when sales or COGS are zero and when COGS is small against the inventory.
C11_Stated ==
    /\ ret.fn = "calculate_financial_metrics" => RLe(ret.out.dio, RInt(CapDays))
    /\ ret.fn = "calculate_demand_metrics" =>
          RLe(ret.out.cobertura_dias, RInt(CapDays))

\* C5: for movements with quantities >= 0 every stock_level of
\* calculate_stock_series is >= 0 and the final stock of
\* calculate_basic_metrics is >= 0, also when sales exceed purchases.
C5_NonNegativeStock ==
    /\ ret.fn = "calculate_stock_series" =>
          \A i \in 1..Len(ret.out) : ret.out[i].stock_level >= 0
    /\ ret.fn = "calculate_basic_metrics" =>
          ret.out.stock_final_calculado >= 0

\* a series whose sales exceed its purchases has been evaluated
C5_Witness ==
    /\ ret.fn = "calculate_basic_metrics"
    /\ ret.out.total_ventas > ret.out.total_compras
    /\ ret.out.stock_final_calculado = 0

\* C6: calculate_flags never returns exceso = 1 together with faltante = 1.
C6_FlagsExclusive ==
    ret.fn = "calculate_flags" => ~(ret.out.exceso = 1 /\ ret.out.faltante = 1)

\* coverage above the excess threshold while the stock is below the reorder
\* point: both conditions are met and only the shortage is flagged
C6_Witness ==
    /\ ret.fn = "calculate_flags"
    /\ RLt(RInt(call.excess_threshold), call.cobertura_dias)
    /\ RLtSurd(RInt(call.stock_final_calculado), call.rop)
    /\ ret.out.faltante = 1
    /\ ret.out.exceso = 0

AbcKeys(products_data) ==
    {products_data[i].nombre_clean : i \in 1..Len(products_data)}

\* C7: for a non-empty list with distinct keys classify_abc returns a mapping
\* whose domain is exactly the keys of the list and whose values are A, B or
\* C; every key is therefore found by the lookup that attaches the class to a
\* stored record, which never takes its default.
C7_AbcPartition ==
    ret.fn = "classify_abc" =>
        /\ DOMAIN ret.out = AbcKeys(call.products)
        /\ \A k \in AbcKeys(call.products) : ret.out[k] \in {"A", "B", "C"}
        /\ \A i \in 1..Len(call.products) :
              DictGet(ret.out, call.products[i].nombre_clean, "default")
                  = ret.out[call.products[i].nombre_clean]

\* three products have been classified and all three classes were assigned
C7_Witness ==
    /\ ret.fn = "classify_abc"
    /\ Len(call.products) = MaxProducts
    /\ {ret.out[k] : k \in DOMAIN ret.out} = {"A", "B", "C"}

\* the sales value of all products ranked at or before product i: those of
\* greater value and those of equal value with a key not greater
CumulativeValue(products_data, i) ==
    RSumSeq([j \in 1..Len(products_data) |->
        IF \/ RLt(SalesValue(products_data[i]), SalesValue(products_data[j]))
           \/ /\ REq(SalesValue(products_data[i]), SalesValue(products_data[j]))
              /\ products_data[j].nombre_clean <= products_data[i].nombre_clean
        THEN SalesValue(products_data[j]) ELSE RZero])

TotalValue(products_data) ==
    RSumSeq([j \in 1..Len(products_data) |-> SalesValue(products_data[j])])

\* share <= percent / 100, decided by cross-multiplication
ShareAtMost(cumulative_value, total_value, percent) ==
    RLe(RMul(cumulative_value, RInt(100)), RMul(total_value, RInt(percent)))

\* C8: a product is A iff the cumulative share of the sales value up to and
\* including it, in the order value descending then key ascending, is <= 80%,
\* B iff that share is > 80% and <= 95%, C otherwise; values 800 and 200 give
\* A and C.
C8_AbcThresholds ==
    ret.fn = "classify_abc" =>
        /\ \A i \in 1..Len(call.products) :
              LET cum == CumulativeValue(call.products, i)
                  total == TotalValue(call.products)
                  class == ret.out[call.products[i].nombre_clean]
              IN /\ class = "A" <=> ShareAtMost(cum, total, 80)
                 /\ class = "B" <=> (~ShareAtMost(cum, total, 80)
                                     /\ ShareAtMost(cum, total, 95))
                 /\ class = "C" <=> ~ShareAtMost(cum, total, 95)
        /\ (/\ Len(call.products) = 2
            /\ \E i, j \in 1..2 :
                  /\ REq(SalesValue(call.products[i]), RInt(800))
                  /\ REq(SalesValue(call.products[j]), RInt(200)))
           => \E i, j \in 1..2 :
                  /\ REq(SalesValue(call.products[i]), RInt(800))
                  /\ ret.out[call.products[i].nombre_clean] = "A"
                  /\ REq(SalesValue(call.products[j]), RInt(200))
                  /\ ret.out[call.products[j].nombre_clean] = "C"

\* the products of value 800 and 200 have been classified
C8_Witness ==
    /\ ret.fn = "classify_abc"
    /\ Len(call.products) = 2
    /\ \E i, j \in 1..2 :
          /\ REq(SalesValue(call.products[i]), RInt(800))
          /\ REq(SalesValue(call.products[j]), RInt(200))
          /\ ret.out[call.products[i].nombre_clean] = "A"

\* ---- claims about the pipeline and the result store, checked under Spec ----

\* the records of window w in a producto_kpis table, in storage order
WindowRecords(table, w) ==
    LET Mine(r) == r.fecha_inicio = w[1] /\ r.fecha_fin = w[2]
    IN Where(table, Mine)

\* the records of every other window, in storage order
OtherRecords(table, w) ==
    LET Other(r) == ~(r.fecha_inicio = w[1] /\ r.fecha_fin = w[2])
    IN Where(table, Other)

HasRecord(table, w, nombre_clean) ==
    \E i \in 1..Len(table) :
        /\ table[i].fecha_inicio = w[1] /\ table[i].fecha_fin = w[2]
        /\ table[i].nombre_clean = nombre_clean

CompraKey(r) ==
    <<RInt(r.fecha), RInt(r.nombre_clean), RInt(r.qty_normalizada), RInt(r.costo)>>
VentaKey(r) ==
    <<RInt(r.fecha), RInt(r.nombre_clean), RInt(r.qty_normalizada)>>

\* the records the pair of functions leaves for window w when it runs once,
\* on an empty aggregate table, over the input rows stored in sorted order
ReferenceRecords(compras_table, ventas_table, w) ==
    LET c == SortedBy(compras_table, CompraKey)
        v == SortedBy(ventas_table, VentaKey)
        m == DailyMovements(c, v, w[1], w[2])
        found == DiscoverProducts(m, w[1], w[2])
    IN KpiRecords([i \in 1..Len(found) |-> ProductMetrics(m, c, found[i], w[1], w[2],
                                                           DefaultLeadTimeDays)])

C2_AllOrNothing ==
    outcome = "raised" => (kpis = pre_kpis /\ committed = pre_kpis)

\* an invocation failed after one product had been computed, for a window
\* that had records
C2_Witness ==
    /\ outcome = "raised"
    /\ all_products_data # <<>>
    /\ WindowRecords(kpis, win) # <<>>

\* C3: between invocations every window holds at most one record per product,
\* and exactly the records of the last successful invocation for that window.
C3_ReplaceNeverMerge ==
    pc = "idle" =>
        \A w \in Windows :
            LET recs == WindowRecords(kpis, w)
            IN /\ recs = batch[w]
               /\ \A i, j \in 1..Len(recs) :
                     i # j => recs[i].nombre_clean # recs[j].nombre_clean

\* a window was recomputed and a product it had a record for is gone
C3_Witness ==
    /\ outcome = "ok"
    /\ \E i \in 1..Len(pre_kpis) :
          /\ pre_kpis[i].fecha_inicio = win[1] /\ pre_kpis[i].fecha_fin = win[2]
          /\ ~HasRecord(kpis, win, pre_kpis[i].nombre_clean)

\* C4: during and after an invocation for window (s, e), successful or not,
\* the records of every other window are the ones stored before it.
C4_OtherWindowsUntouched ==
    (pc # "idle" \/ outcome # "none") =>
        OtherRecords(kpis, win) = OtherRecords(pre_kpis, win)

\* an invocation ended while a window with the same start date and another
\* end date, overlapping it, held records
C4_Witness ==
    /\ outcome \in {"ok", "raised"}
    /\ \E i \in 1..Len(kpis) :
          /\ kpis[i].fecha_inicio = win[1]
          /\ kpis[i].fecha_fin # win[2]

\* the aggregate rows of a product inside a window
RowsInWindow(mov_table, nombre_clean, w) ==
    {i \in 1..Len(mov_table) :
        /\ mov_table[i].nombre_clean = nombre_clean
        /\ w[1] <= mov_table[i].fecha /\ mov_table[i].fecha <= w[2]}

\* C9: a product whose aggregate rows inside the window all have qty_in = 0
\* and qty_out = 0, or that has no row inside it, gets no record.
C9_ZeroMovementExcluded ==
    outcome = "ok" =>
        \A n \in Names :
            (\A i \in RowsInWindow(mov, n, win) :
                mov[i].qty_in = 0 /\ mov[i].qty_out = 0)
            => ~HasRecord(kpis, win, n)

\* a product with a zero row inside the window and movement outside it was
\* left out while another product got its record
C9_Witness ==
    /\ outcome = "ok"
    /\ WindowRecords(kpis, win) # <<>>
    /\ \E n \in Names :
          /\ RowsInWindow(mov, n, win) # {}
          /\ \A i \in RowsInWindow(mov, n, win) :
                mov[i].qty_in = 0 /\ mov[i].qty_out = 0
          /\ \E i \in 1..Len(mov) :
                mov[i].nombre_clean = n /\ mov[i].qty_out > 0
          /\ ~HasRecord(kpis, win, n)

InWindowOf(row, n, w) ==
    row.nombre_clean = n /\ w[1] <= row.fecha /\ row.fecha <= w[2]

\* the totals of a product's aggregate rows inside a window
TotalIn(mov_table, n, w) ==
    SumSeq([i \in 1..Len(mov_table) |->
        IF InWindowOf(mov_table[i], n, w) THEN mov_table[i].qty_in ELSE 0])
TotalOut(mov_table, n, w) ==
    SumSeq([i \in 1..Len(mov_table) |->
        IF InWindowOf(mov_table[i], n, w) THEN mov_table[i].qty_out ELSE 0])

\* C10 as stated: a product whose total qty_out over the window is 0 has no
\* record, whatever its qty_in.
C10_Stated ==
    outcome = "ok" =>
        \A n \in Names : TotalOut(mov, n, win) = 0 => ~HasRecord(kpis, win, n)

\* C10 as amended: a product whose total qty_out over the window is 0 has a
\* record exactly when its total qty_in over the window is positive, and that
\* record carries total_ventas = 0.
C10_ExcludedOnlyWithoutPurchases ==
    outcome = "ok" =>
        \A n \in Names : TotalOut(mov, n, win) = 0 =>
            /\ HasRecord(kpis, win, n) <=> TotalIn(mov, n, win) > 0
            /\ \A i \in 1..Len(kpis) :
                  (/\ kpis[i].fecha_inicio = win[1] /\ kpis[i].fecha_fin = win[2]
                   /\ kpis[i].nombre_clean = n)
                  => (kpis[i].total_ventas = 0 /\ kpis[i].total_compras > 0)

\* a product that was only purchased inside the window got a record
C10_Witness ==
    /\ outcome = "ok"
    /\ \E n \in Names :
          /\ TotalOut(mov, n, win) = 0
          /\ TotalIn(mov, n, win) > 0
          /\ HasRecord(kpis, win, n)

\* ---- claims about the parameters of calculate_kpis_fixed, under SpecConfig ----

InvalidParameters == win[2] < win[1] \/ lead_time_days <= 0

\* C12: a call with end_date < start_date or lead_time_days <= 0 returns an
\* error before any computation begins and leaves every stored record as it
\* was.
C12_Stated ==
    (InvalidParameters /\ (pc # "idle" \/ outcome # "none")) =>
        /\ pc = "idle"
        /\ outcome = "raised"
        /\ kpis = pre_kpis
        /\ committed = pre_kpis

\* ---- claims about the order of the steps of one invocation, under Spec ----

\* C13: the DELETE of the window's prior records is issued only after the
\* discovery and the computation of every product; while products are being
\* computed, and when one of them fails, the deletion has not happened.
C13_Stated ==
    pc \in {"compute", "except"} => kpis = pre_kpis

\* ---- claims about concurrent use of the result store, under SpecThreads ----

\* the records a run for window w produces from the loaded data
NewRecords(w) == RunRecords(mov, compras, w[1], w[2], DefaultLeadTimeDays)

\* C14: what a dashboard query reads of a window is the complete prior set
\* of records or the complete new set, never a state in between.
C14_Stated ==
    seen.pc # "idle" =>
        \A w \in Windows :
            \/ WindowRecords(seen.rows, w) = WindowRecords(pre_kpis, w)
            \/ WindowRecords(seen.rows, w) = NewRecords(w)

\* what the window of thread t holds when the invocation ran alone
AloneRecords(t) ==
    IF proc[t].outcome = "ok" THEN NewRecords(proc[t].win)
    ELSE WindowRecords(pre_kpis, proc[t].win)

\* C15: when two invocations for different windows have finished, however
\* they interleaved, each window holds exactly the records its invocation
\* leaves when run alone.
C15_Stated ==
    (\A t \in Threads : proc[t].pc = "done") =>
        \A t \in Threads :
            /\ WindowRecords(kpis, proc[t].win) = AloneRecords(t)
            /\ WindowRecords(committed, proc[t].win) = AloneRecords(t)

\* ---- claims about the records of one invocation, under Spec ----

\* C16: the records of a successful invocation are stored in discovery
\* order, one record per discovered product, with strictly ascending
\* nombre_clean, whatever order the classification traverses.
C16_OutputOrder ==
    outcome = "ok" =>
        LET recs == WindowRecords(kpis, win)
        IN /\ recs = batch[win]
           /\ Len(recs) = Len(products)
           /\ \A i \in 1..Len(recs) : recs[i].nombre_clean = products[i]
           /\ \A i, j \in 1..Len(recs) :
                 i < j => recs[i].nombre_clean < recs[j].nombre_clean

\* two products were stored and the ABC ranking, by sales value descending,
\* visits them in the opposite order
C16_Witness ==
    /\ outcome = "ok"
    /\ Len(batch[win]) = 2
    /\ RLt(SalesValue(batch[win][1]), SalesValue(batch[win][2]))

\* ---- further claims about calculator functions, under SpecPure ----

\* C17: each stock_level of calculate_stock_series is max(0, previous
\* stock_level + qty_in - qty_out), the previous level being the clamped level
\* of the preceding point (0 before the first): a deficit is not carried on.
C17_Stated ==
    ret.fn = "calculate_stock_series" =>
        LET sorted_movements == SortedBy(call.movements, MovementKey)
        IN \A i \in 1..Len(ret.out) :
              LET previous == IF i = 1 THEN 0 ELSE ret.out[i - 1].stock_level
                  level == previous + sorted_movements[i].qty_in
                                    - sorted_movements[i].qty_out
              IN ret.out[i].stock_level = IF level < 0 THEN 0 ELSE level

\* C18: the final stock of calculate_basic_metrics is the stock_level of the
\* last point of the series calculate_stock_series gives for the same
\* movements with initial stock 0, and 0 when there are no movements.
C18_FinalStockIsLastPoint ==
    ret.fn = "calculate_basic_metrics" =>
        LET stock_series == calculate_stock_series(call.movements, 0)
        IN ret.out.stock_final_calculado =
              IF stock_series = <<>> THEN 0
              ELSE stock_series[Len(stock_series)].stock_level

\* a series that starts with a deficit and ends with stock has been evaluated
C18_Witness ==
    /\ ret.fn = "calculate_basic_metrics"
    /\ ret.out.stock_final_calculado > 0
    /\ LET sorted_movements == SortedBy(call.movements, MovementKey)
       IN /\ Len(sorted_movements) > 1
          /\ sorted_movements[1].qty_out > sorted_movements[1].qty_in

\* C20: calculate_financial_metrics returns valor_inventario = costo_promedio
\* x final stock, so a product whose final stock is 0 has inventory value 0
\* even when its average stock is positive.
C20_ValueUsesFinalStock ==
    ret.fn = "calculate_financial_metrics" =>
        /\ REq(ret.out.valor_inventario,
               RMul(ret.basic_metrics.costo_promedio,
                    RInt(ret.basic_metrics.stock_final_calculado)))
        /\ ret.basic_metrics.stock_final_calculado = 0 =>
              REq(ret.out.valor_inventario, RZero)

\* a product with a cost, a positive average stock and no final stock
C20_Witness ==
    /\ ret.fn = "calculate_financial_metrics"
    /\ RLt(RZero, ret.basic_metrics.costo_promedio)
    /\ RLt(RZero, ret.basic_metrics.stock_promedio)
    /\ ret.basic_metrics.stock_final_calculado = 0
    /\ REq(ret.out.valor_inventario, RZero)

\* ---- further claims about stored records, under Spec ----

\* C19: every stored record has stock_final = max(0, total_compras -
\* total_ventas), and the totals of the records just stored are the sums of
\* qty_in and qty_out of the product's aggregate rows inside the window.
C19_StockFinalFormula ==
    /\ \A i \in 1..Len(kpis) :
          LET difference == kpis[i].total_compras - kpis[i].total_ventas
          IN kpis[i].stock_final = IF difference < 0 THEN 0 ELSE difference
    /\ outcome = "ok" =>
          \A i \in 1..Len(kpis) :
              (kpis[i].fecha_inicio = win[1] /\ kpis[i].fecha_fin = win[2]) =>
                  /\ kpis[i].total_compras = TotalIn(mov, kpis[i].nombre_clean, win)
                  /\ kpis[i].total_ventas = TotalOut(mov, kpis[i].nombre_clean, win)

\* a record was stored for a product that sold more than it bought inside the
\* window and has further aggregate rows outside the window
C19_Witness ==
    /\ outcome = "ok"
    /\ \E i \in 1..Len(kpis) :
          /\ kpis[i].fecha_inicio = win[1] /\ kpis[i].fecha_fin = win[2]
          /\ kpis[i].total_ventas > kpis[i].total_compras
          /\ kpis[i].stock_final = 0
          /\ \E j \in 1..Len(mov) :
                /\ mov[j].nombre_clean = kpis[i].nombre_clean
                /\ ~(win[1] <= mov[j].fecha /\ mov[j].fecha <= win[2])
                /\ mov[j].qty_in > 0

\* ---- claims about the financial metrics, under SpecPure ----

\* the arithmetic mean of the stock points of a series
MeanStock(movements) ==
    LET stock_series == calculate_stock_series(movements, 0)
    IN R(SumSeq([i \in 1..Len(stock_series) |-> stock_series[i].stock_level]),
         Len(stock_series))

\* C21: rotacion = cogs / (costo_promedio x average stock), with cogs =
\* costo_promedio x total sales and the average stock the mean of the stock
\* points, and 0 when the denominator is 0; the movements (100, 0), (0, 30),
\* (0, 40) at cost 10 give totals 100 and 70, final stock 30, average stock
\* 200/3, cogs 700, inventory value 300 and rotation 21/20.
C21_RotationUsesAverageStock ==
    ret.fn = "calculate_financial_metrics" =>
        LET basic == ret.basic_metrics
            cogs == RMul(basic.costo_promedio, RInt(basic.total_ventas))
            denominator == RMul(basic.costo_promedio, basic.stock_promedio)
        IN /\ call.movements # <<>> =>
                 REq(basic.stock_promedio, MeanStock(call.movements))
           /\ REq(ret.out.cogs, cogs)
           /\ REq(ret.out.rotacion,
                  IF REq(denominator, RZero) THEN RZero ELSE RDiv(cogs, denominator))
           /\ call = ScenarioCall =>
                 /\ basic.total_compras = 100
                 /\ basic.total_ventas = 70
                 /\ basic.stock_final_calculado = 30
                 /\ REq(basic.stock_promedio, R(200, 3))
                 /\ REq(ret.out.cogs, RInt(700))
                 /\ REq(ret.out.valor_inventario, RInt(300))
                 /\ REq(ret.out.rotacion, R(21, 20))

\* the scenario has been evaluated
C21_Witness ==
    /\ ret.fn = "calculate_financial_metrics"
    /\ call = ScenarioCall
    /\ REq(ret.out.rotacion, R(21, 20))

\* the dio formula on the basic metrics of a calculate_financial_metrics call
DioFormula ==
    RDiv(RMul(ret.basic_metrics.costo_promedio, ret.basic_metrics.stock_promedio),
         RDiv(ret.out.cogs, RInt(call.period_days)))

\* C22 as stated: calculate_financial_metrics returns dio = 0 whenever cogs is
\* 0 (no sales in the window or average cost 0), and otherwise
\* dio = (costo_promedio x average stock) / (cogs / period_days).
C22_Stated ==
    ret.fn = "calculate_financial_metrics" =>
        IF REq(ret.out.cogs, RZero)
        THEN REq(ret.out.dio, RZero)
        ELSE REq(ret.out.dio, DioFormula)

\* C22: calculate_financial_metrics returns the sentinel dio = 999 whenever
\* cogs is 0 (no sales in the window or average cost 0), and otherwise
\* dio = (costo_promedio x average stock) / (cogs / period_days).
C22_ZeroCogsIsSentinel ==
    ret.fn = "calculate_financial_metrics" =>
        IF REq(ret.out.cogs, RZero)
        THEN REq(ret.out.dio, RInt(CapDays))
        ELSE REq(ret.out.dio, DioFormula)

\* a product with purchases, a cost and no sales has been given its dio
C22_Witness ==
    /\ ret.fn = "calculate_financial_metrics"
    /\ ret.basic_metrics.total_compras > 0
    /\ ret.basic_metrics.total_ventas = 0
    /\ RLt(RZero, ret.basic_metrics.costo_promedio)
    /\ REq(ret.out.cogs, RZero)
    /\ REq(ret.out.dio, RInt(CapDays))

\* the quantity-weighted average cost of the purchase lines of a product
WeightedCost(compras_table, nombre_clean) ==
    LET Mine(r) == r.nombre_clean = nombre_clean
        rows == Where(compras_table, Mine)
        value == SumSeq([i \in 1..Len(rows) |-> rows[i].qty_normalizada * rows[i].costo])
        quantity == SumSeq([i \in 1..Len(rows) |-> rows[i].qty_normalizada])
    IN IF quantity = 0 THEN RZero ELSE R(value, quantity)

\* C23 as stated: the costo_promedio of every record emitted by
\* calculate_kpis_fixed is the quantity-weighted average
\* Sum(qty x unit_price) / Sum(qty) over the purchase lines of the product,
\* and 0 when the product has no purchase cost data.
C23_Stated ==
    outcome = "ok" =>
        \A i \in 1..Len(kpis) :
            (kpis[i].fecha_inicio = win[1] /\ kpis[i].fecha_fin = win[2])
            => REq(kpis[i].costo_promedio, WeightedCost(compras, kpis[i].nombre_clean))

\* the aggregate rows dated inside window w, in storage order
InsideRows(mov_table, w) ==
    LET Inside(r) == Between(r.fecha, w[1], w[2])
    IN Where(mov_table, Inside)

\* C24: a completed run of calculate_kpis_fixed leaves for its window the
\* records it would leave on the aggregate table without the rows dated
\* outside the window, so two runs with the same window and parameters on
\* inputs that differ only in such rows give the same products, volumes,
\* stock, demand, flags and classes; the costo_promedio of every record is
\* taken from the purchase lines of the product of every date.
C24_WindowNonInterference ==
    outcome = "ok" =>
        /\ WindowRecords(kpis, win) =
              RunRecords(InsideRows(mov, win), compras, win[1], win[2], lead_time_days)
        /\ \A i \in 1..Len(kpis) :
              (kpis[i].fecha_inicio = win[1] /\ kpis[i].fecha_fin = win[2])
              => REq(kpis[i].costo_promedio, AvgCost(compras, kpis[i].nombre_clean))

\* a run completed on a table holding a movement of a recorded product outside
\* the window, and a purchase line outside the window that moves its cost
C24_Witness ==
    /\ outcome = "ok"
    /\ \E i \in 1..Len(kpis), j \in 1..Len(mov), k \in 1..Len(compras) :
          /\ kpis[i].fecha_inicio = win[1] /\ kpis[i].fecha_fin = win[2]
          /\ mov[j].nombre_clean = kpis[i].nombre_clean
          /\ ~Between(mov[j].fecha, win[1], win[2])
          /\ mov[j].qty_in + mov[j].qty_out > 0
          /\ compras[k].nombre_clean = kpis[i].nombre_clean
          /\ ~Between(compras[k].fecha, win[1], win[2])
          /\ ~REq(kpis[i].costo_promedio,
                  AvgCost(InsideRows(compras, win), kpis[i].nombre_clean))

\* C25: calculate_flags returns faltante = 1 iff the final stock is below the
\* reorder point or the coverage is below the shortage threshold, and
\* exceso = 1 iff faltante = 0 and the coverage is above the excess threshold;
\* a product with coverage 5, shortage threshold 7 and final stock at or above
\* the reorder point is a shortage and no excess, whatever the excess threshold.
C25_FlagDefinition ==
    ret.fn = "calculate_flags" =>
        LET below_rop == RLtSurd(RInt(call.stock_final_calculado), call.rop)
            low_coverage == RLt(call.cobertura_dias, RInt(call.shortage_threshold))
            high_coverage == RLt(RInt(call.excess_threshold), call.cobertura_dias)
        IN /\ ret.out.faltante \in {0, 1} /\ ret.out.exceso \in {0, 1}
           /\ ret.out.faltante = 1 <=> (below_rop \/ low_coverage)
           /\ ret.out.exceso = 1 <=> (ret.out.faltante = 0 /\ high_coverage)
           /\ (/\ REq(call.cobertura_dias, RInt(5))
               /\ call.shortage_threshold = 7
               /\ ~below_rop)
              => (ret.out.faltante = 1 /\ ret.out.exceso = 0)

\* the flags of a product with coverage 5 and shortage threshold 7 whose stock
\* is not below its reorder point, under an excess threshold below 5
C25_Witness ==
    /\ ret.fn = "calculate_flags"
    /\ REq(call.cobertura_dias, RInt(5))
    /\ call.shortage_threshold = 7
    /\ call.excess_threshold < 5
    /\ ~RLtSurd(RInt(call.stock_final_calculado), call.rop)
    /\ ret.out.faltante = 1
    /\ ret.out.exceso = 0

\* ---- claims about create_daily_aggregates_normalized_fixed, under Spec ----

\* the rows of a table of date d and product n
KeyRows(table, d, n) ==
    LET Mine(r) == r.fecha = d /\ r.nombre_clean = n
    IN Where(table, Mine)

QtySum(rows) == SumSeq([i \in 1..Len(rows) |-> rows[i].qty_normalizada])

\* C26: after create_daily_aggregates_normalized_fixed(start, end) every date
\* of the window and product name that occurs in a purchase or sale line has
\* exactly one aggregate row, whose qty_in is the sum of the purchase
\* quantities and whose qty_out is the sum of the sale quantities of that date
\* and name; a date and name without lines has no row, lines without a name
\* contribute to no row, and without input lines the window has no rows.
C26_ExactAggregation ==
    fresh # NoWindow =>
        /\ \A d \in fresh[1]..fresh[2], n \in Names :
              LET purchases == KeyRows(compras, d, n)
                  sales == KeyRows(ventas, d, n)
                  rows == KeyRows(mov, d, n)
              IN IF purchases = <<>> /\ sales = <<>>
                 THEN rows = <<>>
                 ELSE /\ Len(rows) = 1
                      /\ rows[1].qty_in = QtySum(purchases)
                      /\ rows[1].qty_out = QtySum(sales)
        /\ \A i \in 1..Len(mov) : mov[i].nombre_clean # EmptyName
        /\ (compras = <<>> /\ ventas = <<>>) => InsideRows(mov, fresh) = <<>>

\* an aggregate row merges two purchase lines of one date and product, while
\* a line without a product name lies in the aggregated window
C26_Witness ==
    /\ fresh # NoWindow
    /\ \E i \in 1..Len(mov) :
          /\ Between(mov[i].fecha, fresh[1], fresh[2])
          /\ Len(KeyRows(compras, mov[i].fecha, mov[i].nombre_clean)) = 2
          /\ mov[i].qty_in = 3
    /\ \E j \in 1..Len(ventas) :
          /\ ventas[j].nombre_clean = EmptyName
          /\ Between(ventas[j].fecha, fresh[1], fresh[2])

\* the (fecha, cabys) pairs of the coded purchase and sale lines of a product
CodedLines(compras_table, ventas_table, nombre_clean) ==
    {<<compras_table[i].fecha, compras_table[i].cabys>> :
        i \in {k \in 1..Len(compras_table) :
                 /\ compras_table[k].nombre_clean = nombre_clean
                 /\ compras_table[k].cabys # 0}}
    \cup {<<ventas_table[i].fecha, ventas_table[i].cabys>> :
        i \in {k \in 1..Len(ventas_table) :
                 /\ ventas_table[k].nombre_clean = nombre_clean
                 /\ ventas_table[k].cabys # 0}}

\* the first code of the product's lines by date, then code; 0 without one
FirstLineCabys(compras_table, ventas_table, nombre_clean) ==
    LET coded == CodedLines(compras_table, ventas_table, nombre_clean)
    IN IF coded = {} THEN 0
       ELSE (CHOOSE p \in coded :
                \A q \in coded : p[1] < q[1] \/ (p[1] = q[1] /\ p[2] <= q[2]))[2]

\* C27 as stated: after create_daily_aggregates_normalized_fixed and
\* calculate_kpis_fixed the cabys of each result record is the first non-empty
\* CABYS code among the purchase and sale lines of the product (by date, then
\* code), and is empty only when none of these lines has a code.
C27_Stated ==
    (outcome = "ok" /\ fresh = win) =>
        \A i \in 1..Len(kpis) :
            (kpis[i].fecha_inicio = win[1] /\ kpis[i].fecha_fin = win[2])
            => kpis[i].cabys = FirstLineCabys(compras, ventas, kpis[i].nombre_clean)

C29_UniqueKeys ==
    \A i, j \in 1..Len(mov) :
        (mov[i].fecha = mov[j].fecha /\ mov[i].nombre_clean = mov[j].nombre_clean)
        => i = j

\* a second or later run recreated a row of its window while a row of an
\* earlier run outside the window stays in the table
C29_Witness ==
    /\ aggs >= 2
    /\ fresh # NoWindow
    /\ recreated
    /\ \E i \in 1..Len(mov) : Between(mov[i].fecha, fresh[1], fresh[2])
    /\ \E j \in 1..Len(mov) : ~Between(mov[j].fecha, fresh[1], fresh[2])

\* ---- the order of the ABC classes, checked under SpecPure ----

AbcRank(class) == IF class = "A" THEN 1 ELSE IF class = "B" THEN 2 ELSE 3

\* C30: for a product list with distinct keys and sales values >= 0, a
\* product of strictly greater sales_value than another gets from classify_abc
\* the same class or a better one (A before B before C).
C30_AbcMonotone ==
    ret.fn = "classify_abc" =>
        \A i, j \in 1..Len(call.products) :
            RLt(SalesValue(call.products[j]), SalesValue(call.products[i]))
            => AbcRank(ret.out[call.products[i].nombre_clean])
                  <= AbcRank(ret.out[call.products[j].nombre_clean])

\* three products of three different sales values got three different classes,
\* the one passed last being the one of greatest value
C30_Witness ==
    /\ ret.fn = "classify_abc"
    /\ Len(call.products) = MaxProducts
    /\ \A i \in 1..(MaxProducts - 1) :
          RLt(SalesValue(call.products[i]), SalesValue(call.products[i + 1]))
    /\ ret.out[call.products[MaxProducts].nombre_clean] = "A"
    /\ ret.out[call.products[1].nombre_clean] = "C"
    /\ ret.out[call.products[2].nombre_clean] = "B"

====
